---- MODULE Spec2Model ----
(***************************************************************************)
(* A model of the RagChat component (src/src/components/RagChat.tsx).       *)
(*                                                                         *)
(* State: the four React state cells (messages, input, loading,            *)
(* isStreaming), the asynchronous invocations of sendMessage that are      *)
(* suspended at an await (procs), the requests handed to fetch (requests), *)
(* the handler or continuation that ran last (ev), whether React still     *)
(* renders the component (mounted): an updater that throws while rendering *)
(* unmounts it, with the state of its last render; and the input and       *)
(* loading of the render whose handlers a caller holds (held): sendMessage *)
(* and the inline handlers are closures over one render's values.          *)
(*                                                                         *)
(* Every action is one synchronous run of JavaScript: an event handler, or *)
(* the continuation of sendMessage from one await to the next (or to its    *)
(* end, catch and finally blocks included).  The state setters called in    *)
(* one run are applied together, functional updaters in call order, and    *)
(* the handlers of the next run close over the resulting state.             *)
(*                                                                         *)
(* Text is a sequence of code points; a response body is a sequence of     *)
(* bytes, decoded as TextDecoder decodes UTF-8.                            *)
(***************************************************************************)
EXTENDS Integers, Sequences, FiniteSets, TLC

VARIABLES messages, input, loading, isStreaming, procs, requests, ev, mounted,
          held

vars ==
    <<messages, input, loading, isStreaming, procs, requests, ev, mounted, held>>

(***************************************************************************)
(* Bounds of the model.                                                    *)
(***************************************************************************)
MaxExchanges == 2   \* accepted submissions per behaviour
MaxChunks == 2      \* chunks a response stream delivers before it ends

(***************************************************************************)
(* String literals of the source, as code points.                          *)
(***************************************************************************)
\* "Sorry, I encountered an error. Please try again."
ApologyText ==
    <<83, 111, 114, 114, 121, 44, 32, 73, 32, 101, 110, 99, 111, 117, 110,
      116, 101, 114, 101, 100, 32, 97, 110, 32, 101, 114, 114, 111, 114, 46,
      32, 80, 108, 101, 97, 115, 101, 32, 116, 114, 121, 32, 97, 103, 97,
      105, 110, 46>>

\* "No response received."
FallbackText ==
    <<78, 111, 32, 114, 101, 115, 112, 111, 110, 115, 101, 32, 114, 101, 99,
      101, 105, 118, 101, 100, 46>>

\* "text/plain"
TextPlain == <<116, 101, 120, 116, 47, 112, 108, 97, 105, 110>>

\* "application/json"
ApplicationJson ==
    <<97, 112, 112, 108, 105, 99, 97, 116, 105, 111, 110, 47, 106, 115, 111,
      110>>

\* "/api/rag"
ApiRag == <<47, 97, 112, 105, 47, 114, 97, 103>>

(***************************************************************************)
(* String.prototype.trim: strips white space and line terminators from    *)
(* both ends.                                                              *)
(***************************************************************************)
IsWhiteSpace(c) ==
    \/ c \in {9, 10, 11, 12, 13, 32, 160, 5760, 8232, 8233, 8239, 8287,
              12288, 65279}
    \/ (c >= 8192 /\ c <= 8202)

RECURSIVE TrimStart(_)
TrimStart(s) ==
    IF s = <<>> THEN <<>>
    ELSE IF IsWhiteSpace(Head(s)) THEN TrimStart(Tail(s))
    ELSE s

RECURSIVE TrimEnd(_)
TrimEnd(s) ==
    IF s = <<>> THEN <<>>
    ELSE IF IsWhiteSpace(s[Len(s)]) THEN TrimEnd(SubSeq(s, 1, Len(s) - 1))
    ELSE s

Trim(s) == TrimEnd(TrimStart(s))

(***************************************************************************)
(* String.prototype.includes, and its use through `contentType?.includes`: *)
(* a header that is absent (null) includes nothing.                        *)
(***************************************************************************)
Includes(s, needle) ==
    \E i \in 0..(Len(s) - Len(needle)) :
        SubSeq(s, i + 1, i + Len(needle)) = needle

HeaderIncludes(contentType, needle) ==
    contentType.present /\ Includes(contentType.value, needle)

(***************************************************************************)
(* new TextDecoder() and decoder.decode(value, { stream: true }): the      *)
(* UTF-8 decoder of the Encoding standard.  The decoder keeps the bytes of *)
(* an unfinished multi-byte sequence between calls (cp, needed, seen and   *)
(* the bounds of the next continuation byte); a byte that cannot continue  *)
(* the sequence yields U+FFFD and is handled again as a first byte; a      *)
(* leading U+FEFF is dropped.  With stream: true the end of a chunk emits   *)
(* nothing for an unfinished sequence.                                     *)
(***************************************************************************)
ReplacementChar == 65533

ByteOrderMark == 65279

Utf8Idle == [cp |-> 0, needed |-> 0, seen |-> 0, lower |-> 128, upper |-> 191]

\* A byte read when no sequence is open.
Utf8First(b) ==
    IF b <= 127 THEN [st |-> Utf8Idle, out |-> <<b>>]
    ELSE IF b >= 194 /\ b <= 223 THEN
        [st |-> [Utf8Idle EXCEPT !.needed = 1, !.cp = b % 32], out |-> <<>>]
    ELSE IF b >= 224 /\ b <= 239 THEN
        [st |-> [Utf8Idle EXCEPT !.needed = 2, !.cp = b % 16,
                                 !.lower = IF b = 224 THEN 160 ELSE 128,
                                 !.upper = IF b = 237 THEN 159 ELSE 191],
         out |-> <<>>]
    ELSE IF b >= 240 /\ b <= 244 THEN
        [st |-> [Utf8Idle EXCEPT !.needed = 3, !.cp = b % 8,
                                 !.lower = IF b = 240 THEN 144 ELSE 128,
                                 !.upper = IF b = 244 THEN 143 ELSE 191],
         out |-> <<>>]
    ELSE [st |-> Utf8Idle, out |-> <<ReplacementChar>>]

Utf8Byte(st, b) ==
    IF st.needed = 0 THEN Utf8First(b)
    ELSE IF b < st.lower \/ b > st.upper THEN
        [st |-> Utf8First(b).st, out |-> <<ReplacementChar>> \o Utf8First(b).out]
    ELSE IF st.seen + 1 = st.needed THEN
        [st |-> Utf8Idle, out |-> <<st.cp * 64 + (b % 64)>>]
    ELSE
        [st |-> [st EXCEPT !.cp = st.cp * 64 + (b % 64), !.seen = st.seen + 1,
                           !.lower = 128, !.upper = 191],
         out |-> <<>>]

RECURSIVE Utf8Run(_, _)
Utf8Run(st, bytes) ==
    IF bytes = <<>> THEN [st |-> st, out |-> <<>>]
    ELSE LET one == Utf8Byte(st, Head(bytes))
             rest == Utf8Run(one.st, Tail(bytes))
         IN  [st |-> rest.st, out |-> one.out \o rest.out]

NewTextDecoder == [utf8 |-> Utf8Idle, bomSeen |-> FALSE]

\* decoder.decode(value, { stream: true })
decode(decoder, value) ==
    LET run == Utf8Run(decoder.utf8, value)
        strip == ~decoder.bomSeen /\ run.out # <<>>
                     /\ Head(run.out) = ByteOrderMark
    IN  [decoder |-> [utf8 |-> run.st,
                      bomSeen |-> decoder.bomSeen \/ run.out # <<>>],
         chunk |-> IF strip THEN Tail(run.out) ELSE run.out]

(***************************************************************************)
(* What the user and the server can supply.                                *)
(***************************************************************************)
\* Values typed into the input box: "", " ", " Hi ".
InputValues == {<<>>, <<32>>, <<32, 72, 105, 32>>}

Keys == {"Enter", "a"}

\* Status codes of a response.
Statuses == {200, 201, 404, 500}

Header(v) == [present |-> TRUE, value |-> v]

NoHeader == [present |-> FALSE, value |-> <<>>]

\* content-type headers: "text/plain; charset=utf-8", "application/json",
\* "text/html", and none.
ContentTypes ==
    { Header(TextPlain \o <<59, 32, 99, 104, 97, 114, 115, 101, 116, 61, 117,
                            116, 102, 45, 56>>),
      Header(ApplicationJson),
      Header(<<116, 101, 120, 116, 47, 104, 116, 109, 108>>),
      NoHeader }

\* Bodies of a streamed response, as bytes: nothing; "Hello"; "H" and U+00E9
\* (C3 A9); "H" and a first byte C3 that nothing follows; a lone second
\* byte A9.
Bodies ==
    {<<>>, <<72, 101, 108, 108, 111>>, <<72, 195, 169>>, <<72, 195>>, <<169>>}

\* res.body: a stream of the body's bytes, or null.
Stream(bytes) == [isNull |-> FALSE, bytes |-> bytes]

NullBody == [isNull |-> TRUE, bytes |-> <<>>]

Responses ==
    [status : Statuses, contentType : ContentTypes,
     body : {Stream(b) : b \in Bodies} \cup {NullBody}]

\* What res.json() resolves to: null, {}, {"answer": ""}, {"answer": "X"}.
JsonNull == [kind |-> "null", hasAnswer |-> FALSE, answer |-> <<>>]

JsonObject(has, a) == [kind |-> "object", hasAnswer |-> has, answer |-> a]

JsonValues ==
    {JsonNull, JsonObject(FALSE, <<>>), JsonObject(TRUE, <<>>),
     JsonObject(TRUE, <<88>>)}

NoData == [kind |-> "none", hasAnswer |-> FALSE, answer |-> <<>>]

(***************************************************************************)
(* The state.                                                              *)
(***************************************************************************)
User(text) == [sender |-> "user", text |-> text]

Bot(text) == [sender |-> "bot", text |-> text]

\* An invocation of sendMessage suspended at `await fetch(...)`; slot is the
\* position of the placeholder it appended.
\* remaining and received are the bytes of the response stream that the
\* reader has yet to deliver and has delivered, nread the chunks delivered.
Started(slot) ==
    [pc |-> "fetch", slot |-> slot, accumulatedText |-> <<>>,
     decoder |-> NewTextDecoder, remaining |-> <<>>, received |-> <<>>,
     nread |-> 0]

\* An invocation that has returned: its locals are gone.
Returned(p) ==
    [pc |-> "done", slot |-> p.slot, accumulatedText |-> <<>>,
     decoder |-> NewTextDecoder, remaining |-> <<>>, received |-> <<>>,
     nread |-> 0]

\* The status and content type of no response.
NoRes == [status |-> 0, contentType |-> NoHeader]

\* The step that ran last: its name; the JSON value it was given (data); the
\* status and content type of the response it was given (res); the chunks its
\* invocation had consumed when it threw (nread).
Event(op) == [op |-> op, data |-> NoData, res |-> NoRes, nread |-> 0]

FetchEvent(op, res) ==
    [Event(op) EXCEPT
        !.res = [status |-> res.status, contentType |-> res.contentType]]

Init ==
    /\ messages = <<>>
    /\ input = <<>>
    /\ loading = FALSE
    /\ isStreaming = FALSE
    /\ procs = <<>>
    /\ requests = <<>>
    /\ ev = Event("init")
    /\ mounted = TRUE
    /\ held = [input |-> <<>>, loading |-> FALSE]

\* A state setter: React drops the update of a component it has unmounted.
SetState(cell, value) == IF mounted THEN value ELSE cell

\* The values the handlers of the latest render close over:
\* const [input, setInput] = useState(""), const [loading, ...] = useState(false)
Rendered == [input |-> input, loading |-> loading]

(***************************************************************************)
(* The input box: onChange={(e) => setInput(e.target.value)}.              *)
(***************************************************************************)
setInput(v) ==
    /\ input' = SetState(input, v)
    /\ ev' = Event("change")
    /\ UNCHANGED <<held, mounted, messages, loading, isStreaming, procs, requests>>

(***************************************************************************)
(* sendMessage, up to `await fetch(...)`.                                  *)
(***************************************************************************)
\* if (!input.trim() || loading) return;
Rejects(inp, ld) == Trim(inp) = <<>> \/ ld

\* setMessages((prev) => [...prev, { sender: "user", text: userQuery }]) and
\* setMessages((prev) => [...prev, { sender: "bot", text: "" }])
AppendExchangePlaceholderFirst(prev, userQuery) ==
    (prev \o <<Bot(<<>>)>>) \o <<User(userQuery)>>

AppendExchange(prev, userQuery) ==
    (prev \o <<User(userQuery)>>) \o <<Bot(<<>>)>>

\* fetch("/api/rag", { method: "POST", headers, body: JSON.stringify(...) })
RequestWithoutQuery(userQuery) ==
    [method |-> "POST", url |-> ApiRag, contentType |-> ApplicationJson,
     body |-> [query |-> <<>>]]

Request(userQuery) ==
    [method |-> "POST", url |-> ApiRag, contentType |-> ApplicationJson,
     body |-> [query |-> userQuery]]

\* sendMessage as one render defines it: c.input and c.loading are the
\* values that render's closure reads; the functional updaters and the
\* setters act on the state cells.
sendMessage(c) ==
    IF Rejects(c.input, c.loading)
    THEN /\ ev' = Event("rejected")
         /\ UNCHANGED <<held, mounted, messages, input, loading, isStreaming,
                        procs, requests>>
    ELSE LET userQuery == Trim(c.input) IN
         /\ Len(procs) < MaxExchanges
         /\ messages' = SetState(messages, AppendExchange(messages, userQuery))
         /\ input' = SetState(input, <<>>)
         /\ loading' = SetState(loading, TRUE)
         /\ isStreaming' = SetState(isStreaming, TRUE)
         /\ requests' = Append(requests, Request(userQuery))
         /\ procs' = Append(procs, Started(Len(messages')))
         /\ ev' = Event("accepted")
         /\ UNCHANGED <<held, mounted>>

\* (e) => { if (e.key === "Enter" && !loading && input.trim()) sendMessage(); }
\* of the same render.
handleKeyDown(c, key) ==
    IF key = "Enter" /\ ~c.loading /\ Trim(c.input) # <<>>
    THEN sendMessage(c)
    ELSE UNCHANGED vars

(***************************************************************************)
(* The page.  An event reaches its handler through the rendered control,   *)
(* and a disabled control delivers none: <input disabled={loading}>,       *)
(* <button disabled={loading || !input.trim()}>.  React renders again      *)
(* before the browser delivers the next event, so the handler that runs is *)
(* the one of the latest render.                                           *)
(***************************************************************************)
InputDisabled == loading

ButtonDisabled == loading \/ Trim(input) = <<>>

\* <input onChange={(e) => setInput(e.target.value)} disabled={loading}>
onChange(v) ==
    /\ mounted
    /\ ~InputDisabled
    /\ setInput(v)

\* <input onKeyDown={...} disabled={loading}>
onKeyDown(key) ==
    /\ mounted
    /\ ~InputDisabled
    /\ handleKeyDown(Rendered, key)

\* <button onClick={sendMessage} disabled={loading || !input.trim()}>
onClick ==
    /\ mounted
    /\ ~ButtonDisabled
    /\ sendMessage(Rendered)

(***************************************************************************)
(* The functional updaters of the last message.                            *)
(***************************************************************************)
\* newMessages[newMessages.length - 1] = { sender: "bot", text }
SetLastAppending(prev, text) == Append(prev, Bot(text))

SetLastOffByOne(prev, text) ==
    IF Len(prev) > 1 THEN [prev EXCEPT ![Len(prev) - 1] = Bot(text)] ELSE prev

SetLast(prev, text) ==
    IF Len(prev) > 0 THEN [prev EXCEPT ![Len(prev)] = Bot(text)] ELSE prev

\* data.answer || "No response received."
AnswerTextUnchecked(data) == data.answer

AnswerText(data) ==
    IF data.hasAnswer /\ data.answer # <<>> THEN data.answer ELSE FallbackText

\* accumulatedText += chunk
AccumulateLatestOnly(accumulatedText, chunk) == chunk

Accumulate(accumulatedText, chunk) == accumulatedText \o chunk

(***************************************************************************)
(* catch (err) { ... } finally { setLoading(false) }: where every throw    *)
(* and every rejected await of invocation i ends.                          *)
(***************************************************************************)
CatchKeepingText(i, e) ==
    /\ messages' = messages
    /\ isStreaming' = FALSE
    /\ loading' = FALSE
    /\ procs' = [procs EXCEPT ![i] = Returned(procs[i])]
    /\ ev' = [e EXCEPT !.nread = procs[i].nread]
    /\ UNCHANGED <<held, mounted, input, requests>>

CatchRetrying(i, e) ==
    /\ requests' = Append(requests, requests[Len(requests)])
    /\ procs' = [procs EXCEPT ![i] = Started(procs[i].slot)]
    /\ ev' = [e EXCEPT !.nread = procs[i].nread]
    /\ UNCHANGED <<held, mounted, messages, input, loading, isStreaming>>

CatchAppendingApology(i, e) ==
    /\ messages' = SetLast(messages, procs[i].accumulatedText \o ApologyText)
    /\ isStreaming' = FALSE
    /\ loading' = FALSE
    /\ procs' = [procs EXCEPT ![i] = Returned(procs[i])]
    /\ ev' = [e EXCEPT !.nread = procs[i].nread]
    /\ UNCHANGED <<held, mounted, input, requests>>

CatchStillStreaming(i, e) ==
    /\ messages' = SetLast(messages, ApologyText)
    /\ isStreaming' = isStreaming
    /\ loading' = FALSE
    /\ procs' = [procs EXCEPT ![i] = Returned(procs[i])]
    /\ ev' = [e EXCEPT !.nread = procs[i].nread]
    /\ UNCHANGED <<held, mounted, input, requests>>

Catch(i, e) ==
    /\ messages' = SetState(messages, SetLast(messages, ApologyText))
    /\ isStreaming' = SetState(isStreaming, FALSE)
    /\ loading' = SetState(loading, FALSE)
    /\ procs' = [procs EXCEPT ![i] = Returned(procs[i])]
    /\ ev' = [e EXCEPT !.nread = procs[i].nread]
    /\ UNCHANGED <<held, mounted, input, requests>>

(***************************************************************************)
(* The continuation after `await fetch(...)`.                              *)
(***************************************************************************)
\* res.ok
Ok(res) == res.status >= 200 /\ res.status <= 299

\* fetch rejects: a network or transport failure.
FetchRejected(i) ==
    /\ procs[i].pc = "fetch"
    /\ Catch(i, Event("fetchRejected"))

FetchResolvedDispatchFirst(i, res) ==
    /\ procs[i].pc = "fetch"
    /\ IF HeaderIncludes(res.contentType, TextPlain) THEN
            IF res.body.isNull THEN Catch(i, FetchEvent("noReader", res))
            ELSE /\ procs' = [procs EXCEPT ![i].pc = "read",
                                          ![i].remaining = res.body.bytes]
                 /\ ev' = FetchEvent("streaming", res)
                 /\ UNCHANGED <<held, mounted, messages, input, loading, isStreaming, requests>>
       ELSE IF HeaderIncludes(res.contentType, ApplicationJson) THEN
            /\ procs' = [procs EXCEPT ![i].pc = "json"]
            /\ ev' = FetchEvent("json", res)
            /\ UNCHANGED <<held, mounted, messages, input, loading, isStreaming, requests>>
       ELSE IF ~Ok(res) THEN Catch(i, FetchEvent("badStatus", res))
       ELSE Catch(i, FetchEvent("badContentType", res))

FetchResolved(i, res) ==
    /\ procs[i].pc = "fetch"
    /\ IF ~Ok(res) THEN Catch(i, FetchEvent("badStatus", res))
       ELSE IF HeaderIncludes(res.contentType, TextPlain) THEN
            IF res.body.isNull THEN Catch(i, FetchEvent("noReader", res))
            ELSE /\ procs' = [procs EXCEPT ![i].pc = "read",
                                          ![i].remaining = res.body.bytes]
                 /\ ev' = FetchEvent("streaming", res)
                 /\ UNCHANGED <<held, mounted, messages, input, loading, isStreaming, requests>>
       ELSE IF HeaderIncludes(res.contentType, ApplicationJson) THEN
            /\ procs' = [procs EXCEPT ![i].pc = "json"]
            /\ ev' = FetchEvent("json", res)
            /\ UNCHANGED <<held, mounted, messages, input, loading, isStreaming, requests>>
       ELSE Catch(i, FetchEvent("badContentType", res))

(***************************************************************************)
(* The continuations after `await reader.read()`.                          *)
(***************************************************************************)
\* { done: false, value }: the next n bytes of the body arrive as one chunk.
\* The last chunk the bound allows carries all that remains.
ReadChunk(i, n) ==
    /\ procs[i].pc = "read"
    /\ procs[i].nread < MaxChunks
    /\ n \in 1..Len(procs[i].remaining)
    /\ procs[i].nread + 1 = MaxChunks => n = Len(procs[i].remaining)
    /\ LET value == SubSeq(procs[i].remaining, 1, n)
           d == decode(procs[i].decoder, value)
           text == Accumulate(procs[i].accumulatedText, d.chunk)
       IN  /\ messages' = SetState(messages, SetLast(messages, text))
           /\ procs' = [procs EXCEPT
                  ![i].accumulatedText = text,
                  ![i].decoder = d.decoder,
                  ![i].remaining = SubSeq(@, n + 1, Len(@)),
                  ![i].received = @ \o value,
                  ![i].nread = @ + 1]
    /\ ev' = Event("chunk")
    /\ UNCHANGED <<held, mounted, input, loading, isStreaming, requests>>

\* { done: true }: the body has been delivered whole.
ReadDone(i) ==
    /\ procs[i].pc = "read"
    /\ procs[i].remaining = <<>>
    /\ isStreaming' = SetState(isStreaming, FALSE)
    /\ loading' = SetState(loading, FALSE)
    /\ procs' = [procs EXCEPT ![i] = Returned(procs[i])]
    /\ ev' = Event("eof")
    /\ UNCHANGED <<held, mounted, messages, input, requests>>

\* reader.read() rejects.
ReadRejected(i) ==
    /\ procs[i].pc = "read"
    /\ Catch(i, Event("readRejected"))

(***************************************************************************)
(* The continuations after `await res.json()`.                             *)
(***************************************************************************)
JsonResolved(i, data) ==
    /\ procs[i].pc = "json"
    /\ IF data.kind = "null" /\ mounted /\ Len(messages) > 0
       THEN \* The updater reads data.answer when React renders, after the
            \* invocation has returned: the TypeError is thrown outside
            \* the try block, the render fails and the component is
            \* unmounted with the state it last rendered.
            /\ mounted' = FALSE
            /\ procs' = [procs EXCEPT ![i] = Returned(procs[i])]
            /\ ev' = [Event("jsonNull") EXCEPT !.data = data]
            /\ UNCHANGED <<held, messages, input, loading, isStreaming, requests>>
       ELSE /\ messages' = SetState(messages, SetLast(messages, AnswerText(data)))
            /\ isStreaming' = SetState(isStreaming, FALSE)
            /\ loading' = SetState(loading, FALSE)
            /\ procs' = [procs EXCEPT ![i] = Returned(procs[i])]
            /\ ev' = [Event("answer") EXCEPT !.data = data]
            /\ UNCHANGED <<held, mounted, input, requests>>

\* res.json() rejects: the body cannot be read or parsed.
JsonRejectedFallsBack(i) ==
    /\ procs[i].pc = "json"
    /\ messages' = SetLast(messages, FallbackText)
    /\ isStreaming' = FALSE
    /\ loading' = FALSE
    /\ procs' = [procs EXCEPT ![i] = Returned(procs[i])]
    /\ ev' = Event("jsonRejected")
    /\ UNCHANGED <<held, mounted, input, requests>>

JsonRejected(i) ==
    /\ procs[i].pc = "json"
    /\ Catch(i, Event("jsonRejected"))

\* The continuations of the suspended invocations.
Continue ==
    \/ \E i \in DOMAIN procs : FetchRejected(i)
    \/ \E i \in DOMAIN procs : \E res \in Responses : FetchResolved(i, res)
    \/ \E i \in DOMAIN procs : \E n \in 1..Len(procs[i].remaining) : ReadChunk(i, n)
    \/ \E i \in DOMAIN procs : ReadDone(i)
    \/ \E i \in DOMAIN procs : ReadRejected(i)
    \/ \E i \in DOMAIN procs : \E data \in JsonValues : JsonResolved(i, data)
    \/ \E i \in DOMAIN procs : JsonRejected(i)

\* The page: user events through the rendered controls, and continuations.
Next ==
    \/ \E v \in InputValues : onChange(v)
    \/ onClick
    \/ \E key \in Keys : onKeyDown(key)
    \/ Continue

Spec == Init /\ [][Next]_vars

\* A caller takes the handlers of the latest render, to call them now or
\* later: a reference kept across renders, or several events dispatched in
\* one task, which all reach the handlers of the render before the task.
Hold ==
    /\ mounted
    /\ held' = Rendered
    /\ ev' = Event("hold")
    /\ UNCHANGED <<messages, input, loading, isStreaming, procs, requests, mounted>>

\* The handlers called directly: the ones held, which close over the values
\* of their own render, whatever the state cells hold by now and whatever
\* the controls' disabled attributes say.
HandlerNext ==
    \/ Hold
    \/ \E v \in InputValues : setInput(v)
    \/ sendMessage(held)
    \/ \E key \in Keys : handleKeyDown(held, key)
    \/ Continue

HandlerSpec == Init /\ [][HandlerNext]_vars

\* The invocations of sendMessage suspended at an await.
Awaiting == {i \in DOMAIN procs : procs[i].pc # "done"}

\* The promise an invocation awaits settles: fetch resolves or rejects, a
\* read returns a chunk or end-of-data or rejects, res.json() resolves or
\* rejects.
Settle ==
    \E i \in Awaiting :
        \/ /\ procs[i].pc = "fetch"
           /\ \/ FetchRejected(i)
              \/ \E res \in Responses : FetchResolved(i, res)
        \/ /\ procs[i].pc = "read"
           /\ \/ \E n \in 1..Len(procs[i].remaining) : ReadChunk(i, n)
              \/ ReadDone(i)
              \/ ReadRejected(i)
        \/ /\ procs[i].pc = "json"
           /\ \/ \E data \in JsonValues : JsonResolved(i, data)
              \/ JsonRejected(i)

\* The server and the network keep answering: an awaited promise does not
\* stay pending for ever.
FairSpec == Spec /\ WF_vars(Settle)

(***************************************************************************)
(* Properties.                                                             *)
(***************************************************************************)
\* The text of the trailing message.
TrailingText == messages[Len(messages)].text

\* A step of sendMessage's first part is one that leaves ev.op "accepted" or
\* "rejected"; no other handler or continuation does.
SendOps == {"accepted", "rejected"}

\* C1: submitting while loading is a no-op.  From a state in which loading
\* is true no step is an accepted submission and no step issues a request,
\* and a call of sendMessage (which is rejected) leaves messages, input,
\* loading, isStreaming and the suspended invocations as they were, whatever
\* the input holds.
\* Violated: sendMessage reads the loading of the render that defined it; a
\* caller that holds the handler of a render with loading false and calls it
\* twice has the second call accepted while loading is true: two requests.
C1_SubmitWhileLoadingIsNoOp ==
    [][(mounted /\ loading) =>
          /\ ev'.op # "accepted"
          /\ requests' = requests
          /\ (ev'.op = "rejected" =>
                 UNCHANGED <<messages, input, loading, isStreaming, procs>>)]_vars

Utf8Decode(bytes) ==
    LET d == decode(NewTextDecoder, bytes)
    IN  IF d.decoder.utf8.needed # 0
        THEN d.chunk \o <<ReplacementChar>>
        ELSE d.chunk

\* The bytes end inside a multi-byte sequence.
EndsMidCharacter(bytes) == decode(NewTextDecoder, bytes).decoder.utf8.needed # 0

\* The bytes are well-formed UTF-8 (of text that holds no U+FFFD itself).
WellFormed(bytes) ==
    \A k \in DOMAIN Utf8Decode(bytes) : Utf8Decode(bytes)[k] # ReplacementChar

\* The invocations reading a response stream.
Reading == {i \in DOMAIN procs : procs[i].pc = "read"}

\* C3, as stated: after each chunk of a streamed response (here: of one whose
\* body is well-formed UTF-8) the trailing bot message holds the text of all
\* the chunks received so far.
C3_AsStated ==
    \A i \in Reading :
        WellFormed(procs[i].received \o procs[i].remaining) =>
            TrailingText = Utf8Decode(procs[i].received)

\* C3, amended: after each chunk the trailing bot message holds the text of
\* the chunks received so far without the bytes of a multi-byte sequence
\* that the last chunk leaves unfinished, however the body was cut into
\* chunks: it is the text of all the chunks whenever they do not end inside
\* a sequence.  End-of-data leaves the messages as the last chunk left them.
C3_StreamedTextIsDecodedChunks ==
    /\ [](\A i \in Reading :
             /\ TrailingText = decode(NewTextDecoder, procs[i].received).chunk
             /\ ~EndsMidCharacter(procs[i].received) =>
                    TrailingText = Utf8Decode(procs[i].received))
    /\ [][ev'.op = "eof" => messages' = messages]_vars

\* "H" and U+00E9 have arrived in two chunks, and the message reads so.
C3_Witness ==
    \E i \in Reading :
        /\ procs[i].nread = 2
        /\ procs[i].received = <<72, 195, 169>>
        /\ TrailingText = <<72, 233>>

\* C4, as stated: after a JSON response the trailing bot message holds the
\* answer field whenever there is one, and the fallback only when there is
\* none.
C4_AsStated ==
    ev.op = "answer" =>
        /\ ev.data.hasAnswer => TrailingText = ev.data.answer
        /\ TrailingText = FallbackText => ~ev.data.hasAnswer

\* C4, amended: after a JSON response whose body is an object, the trailing
\* bot message holds the answer field when it is a non-empty string, and the
\* fallback when the field is absent or the empty string.
C4_JsonAnswerOrFallback ==
    ev.op = "answer" =>
        /\ Len(messages) > 0
        /\ (ev.data.hasAnswer /\ ev.data.answer # <<>>) =>
               TrailingText = ev.data.answer
        /\ (~ev.data.hasAnswer \/ ev.data.answer = <<>>) =>
               TrailingText = FallbackText

\* {"answer": "X"} has just been received and the message reads "X".
C4_Witness ==
    /\ ev.op = "answer"
    /\ ev.data = JsonObject(TRUE, <<88>>)
    /\ TrailingText = <<88>>

\* The failures the catch block handles: fetch rejects, a status outside
\* 200..299, a content type that is neither (or absent), a response without
\* a body to stream, a read that rejects, a JSON body that cannot be read
\* or parsed.
FailureOps ==
    {"fetchRejected", "badStatus", "badContentType", "noReader",
     "readRejected", "jsonRejected"}

\* C5: every failure ends the same way: the trailing bot message is the
\* apology, isStreaming is false and loading is false.
C5_FailureEndsInApology ==
    ev.op \in FailureOps =>
        /\ Len(messages) > 0
        /\ messages[Len(messages)] = Bot(ApologyText)
        /\ ~isStreaming
        /\ ~loading

\* A response with a content type that is neither has just been handled.
C5_Witness ==
    /\ ev.op = "badContentType"
    /\ TrailingText = ApologyText
    /\ ~loading

\* The invocations of sendMessage that have not returned.
InFlight == {i \in DOMAIN procs : procs[i].pc # "done"}

\* At least one exchange has taken place and every one has completed.
Completed == procs # <<>> /\ InFlight = {}

\* C6: once an exchange has completed, by end-of-data, by a JSON answer or
\* by a failure, and however many came before it, loading is false and a
\* call of sendMessage with non-blank input is accepted: it appends two
\* messages and issues one request.
\* Violated: after a JSON response whose body is null every invocation has
\* returned, but the render has failed with loading still true.
C6_AcceptsAfterCompletion ==
    /\ [](Completed => ~loading)
    /\ [][(Completed /\ Trim(input) # <<>> /\ ev'.op \in SendOps) =>
             /\ ev'.op = "accepted"
             /\ Len(messages') = Len(messages) + 2
             /\ Len(requests') = Len(requests) + 1
             /\ Len(procs') = Len(procs) + 1]_vars

\* C7: loading is true while a request awaits its response, while a chunk
\* read is pending and while a JSON body is being read; and a call of
\* sendMessage with non-blank input is accepted exactly when loading is
\* false.
\* Violated: a handler held from a render with loading false is accepted
\* while loading is true, and of the two invocations then in flight the
\* first to return clears loading while the other is still awaiting.
C7_LoadingSpansExchangeAndGates ==
    /\ []((mounted /\ InFlight # {}) => loading)
    /\ [][(mounted /\ Trim(input) # <<>> /\ ev'.op \in SendOps) =>
             (ev'.op = "accepted" <=> ~loading)]_vars

\* C8: at most one bot message is in flight.  While isStreaming is true the
\* list is non-empty and ends with a bot message; at most one invocation has
\* yet to return, and the placeholder it appended is the last element, the
\* one its updates write.
C8_OneInFlightBotMessage ==
    /\ isStreaming => (Len(messages) > 0 /\ messages[Len(messages)].sender = "bot")
    /\ Cardinality(InFlight) <= 1
    /\ \A i \in InFlight :
           /\ isStreaming
           /\ procs[i].slot = Len(messages)

\* The second exchange is streaming and has written its first chunk.
C8_Witness ==
    /\ isStreaming
    /\ Len(messages) = 4
    /\ \E i \in Reading : procs[i].nread = 1 /\ procs[i].slot = 4

\* C9: an accepted submission (non-blank input, loading false) appends the
\* user message with the trimmed input and then an empty bot message, clears
\* the input, sets loading and isStreaming, and issues one POST to /api/rag
\* carrying the trimmed input as the query.
C9_AcceptedSubmission ==
    [][(Trim(input) # <<>> /\ ~loading /\ ev'.op \in SendOps) =>
          /\ ev'.op = "accepted"
          /\ messages' = messages \o <<User(Trim(input)), Bot(<<>>)>>
          /\ input' = <<>>
          /\ loading'
          /\ isStreaming'
          /\ requests' = Append(requests,
                                [method |-> "POST", url |-> ApiRag,
                                 contentType |-> ApplicationJson,
                                 body |-> [query |-> Trim(input)]])
          /\ Len(procs') = Len(procs) + 1
          /\ procs'[Len(procs')].pc = "fetch"]_vars

\* " Hi " has just been submitted: the messages are "Hi" and the placeholder.
C9_Witness ==
    /\ ev.op = "accepted"
    /\ messages = <<User(<<72, 105>>), Bot(<<>>)>>
    /\ input = <<>>
    /\ loading /\ isStreaming
    /\ Len(requests) = 1
    /\ requests[1].body.query = <<72, 105>>

\* C10: isStreaming is false once the stream has reported end-of-data and
\* once the JSON answer has been set, it is true as long as an invocation
\* has yet to return (chunks still being read included), and it is false
\* whenever every exchange has completed.
\* Violated: after a JSON response whose body is null every invocation has
\* returned, but the render has failed with isStreaming still true.
C10_StreamingFlagCleared ==
    /\ ev.op \in {"eof", "answer"} => ~isStreaming
    /\ InFlight # {} => isStreaming
    /\ Completed => ~isStreaming

\* C11: every accepted submission completes.  If every awaited promise
\* settles in the end (a body being finitely many chunks), loading, once
\* true, returns to false, on the streaming path, the JSON path and every
\* failure path.
\* Violated: when res.json() resolves to null the render fails and the
\* component is unmounted with loading true, for ever.
C11_LoadingEventuallyCleared == loading ~> ~loading

\* The user messages in the list.
UserMessages == {k \in DOMAIN messages : messages[k].sender = "user"}

\* C12: there are no retries.  The requests issued are as many as the
\* submissions accepted (one user message and one invocation each), a step
\* that issues a request is an accepted submission and issues one, and a
\* failure issues none.
C12_NoRetries ==
    /\ [](/\ Len(requests) = Cardinality(UserMessages)
          /\ Len(requests) = Len(procs))
    /\ [][requests' # requests =>
             /\ ev'.op = "accepted"
             /\ Len(requests') = Len(requests) + 1]_vars
    /\ [][ev'.op \in FailureOps => requests' = requests]_vars

\* Two submissions, the second of which has just failed: two requests.
C12_Witness ==
    /\ ev.op \in FailureOps
    /\ Len(procs) = 2
    /\ Len(requests) = 2
    /\ Completed

\* The steps that handle the response fetch resolved with.
FetchOps == {"badStatus", "badContentType", "noReader", "streaming", "json"}

\* C13: the status is checked before the content type.  A response whose
\* status is outside 200..299 is a failure whatever its content type: its
\* invocation returns at once with the apology, so that no chunk of its body
\* is read and no answer field used; only a response with a status in
\* 200..299 is streamed or read as JSON.
C13_StatusCheckedFirst ==
    /\ (ev.op \in FetchOps /\ ~Ok(ev.res)) =>
           /\ ev.op = "badStatus"
           /\ InFlight = {}
           /\ TrailingText = ApologyText
           /\ ~loading /\ ~isStreaming
    /\ ev.op \in {"streaming", "json"} => Ok(ev.res)

\* A 500 response with a text/plain content type has just been handled.
C13_Witness ==
    /\ ev.op = "badStatus"
    /\ ev.res.status = 500
    /\ HeaderIncludes(ev.res.contentType, TextPlain)
    /\ TrailingText = ApologyText

\* C14: a failure in the middle of a stream discards the partial answer.
\* When a read rejects after one or more chunks were written, the trailing
\* bot message is the apology alone, and isStreaming and loading are false.
C14_MidStreamFailureDiscardsPartial ==
    (ev.op = "readRejected" /\ ev.nread >= 1) =>
        /\ Len(messages) > 0
        /\ messages[Len(messages)] = Bot(ApologyText)
        /\ ~isStreaming
        /\ ~loading

\* A read has just rejected after one chunk.
C14_Witness ==
    /\ ev.op = "readRejected"
    /\ ev.nread = 1
    /\ TrailingText = ApologyText

\* C15: the list is append-only and alternates.  Its length is twice the
\* number of accepted submissions, user messages are at the odd positions
\* (counting from one) and bot messages at the even ones, the length never
\* decreases, and only an accepted submission changes it.
C15_AppendOnlyAlternating ==
    /\ [](/\ Len(messages) = 2 * Len(requests)
          /\ \A k \in DOMAIN messages :
                 messages[k].sender = IF k % 2 = 1 THEN "user" ELSE "bot")
    /\ [][/\ Len(messages') >= Len(messages)
          /\ ev'.op # "accepted" => Len(messages') = Len(messages)]_vars

\* The second exchange has just received a chunk: four messages.
C15_Witness == Len(messages) = 4 /\ ev.op = "chunk"

\* C16: completed messages are immutable.  No step changes a message other
\* than the last one, the last one changes only while an invocation is in
\* flight, and a user message never changes.
C16_CompletedMessagesImmutable ==
    [][\A k \in DOMAIN messages :
          (k < Len(messages) \/ InFlight = {} \/ messages[k].sender = "user") =>
              (k \in DOMAIN messages' /\ messages'[k] = messages[k])]_vars

\* The second exchange has written a chunk and the first exchange's answer
\* "X" is still there.
C16_Witness ==
    /\ Len(messages) = 4
    /\ ev.op = "chunk"
    /\ messages[2] = Bot(<<88>>)
    /\ messages[4].text # <<>>

C18_StreamingImpliesLoading ==
    /\ [](isStreaming => loading)
    /\ [][(~isStreaming /\ isStreaming') => (ev'.op = "accepted" /\ loading')]_vars
    /\ [][(loading /\ ~loading') => ~isStreaming']_vars

\* A response has begun to stream: both flags are set.
C18_Witness == ev.op = "streaming" /\ isStreaming /\ loading

\* C19: a JSON response whose body cannot be read or parsed is a failure:
\* the trailing bot message is the apology, not the fallback, and
\* isStreaming and loading are false.
C19_UnreadableJsonIsFailure ==
    ev.op = "jsonRejected" =>
        /\ Len(messages) > 0
        /\ TrailingText = ApologyText
        /\ TrailingText # FallbackText
        /\ ~isStreaming
        /\ ~loading

\* res.json() has just rejected on a 200 application/json response.
C19_Witness ==
    /\ ev.op = "jsonRejected"
    /\ TrailingText = ApologyText
    /\ messages[Len(messages)].sender = "bot"

====
